---------------------------- MODULE Spec2Model ----------------------------
(***************************************************************************)
(* IdleSmith (src/src/idlesmith.jsx): the save record, the derived stats,  *)
(* the upgrade cost curve, persistence (load / store / export / import),   *)
(* the requestAnimationFrame loop and the React state container that ties  *)
(* them together.                                                          *)
(*                                                                         *)
(* Numbers.  JavaScript numbers are modelled in fixed point:               *)
(*   gold, click, gps, cost        in 1/1000 gold  (GoldScale)             *)
(*   globalMult                     in 1/500                               *)
(*   levels, essence, count, base rates, version   as integers             *)
(*   wall clock (Date.now) and frame timestamps    in milliseconds,        *)
(*   the wall clock counted from an epoch that keeps it inside TLC's       *)
(*   integers.                                                             *)
(* A JavaScript value that is not a finite number is kept as what it is:   *)
(* NaN, undefined (also: an absent property) or null.                      *)
(***************************************************************************)
EXTENDS Integers, Sequences, FiniteSets, TLC

-----------------------------------------------------------------------------
(* JavaScript values and arithmetic                                        *)

Num(n) == [k |-> "num", v |-> n]
NaN == [k |-> "nan", v |-> 0]
Undefined == [k |-> "undefined", v |-> 0]
Null == [k |-> "null", v |-> 0]

\* ToNumber: null is 0, undefined is NaN.
ToNumber(x) ==
  CASE x.k = "num" -> x
    [] x.k = "null" -> Num(0)
    [] OTHER -> NaN

IsNum(x) == ToNumber(x).k = "num"

JsAdd(a, b) == IF IsNum(a) /\ IsNum(b) THEN Num(ToNumber(a).v + ToNumber(b).v) ELSE NaN
JsSub(a, b) == IF IsNum(a) /\ IsNum(b) THEN Num(ToNumber(a).v - ToNumber(b).v) ELSE NaN
JsMul(a, b) == IF IsNum(a) /\ IsNum(b) THEN Num(ToNumber(a).v * ToNumber(b).v) ELSE NaN

\* Every comparison with NaN is false.
JsLt(a, b) == IsNum(a) /\ IsNum(b) /\ ToNumber(a).v < ToNumber(b).v
JsGt(a, b) == JsLt(b, a)
JsGe(a, b) == IsNum(a) /\ IsNum(b) /\ ToNumber(a).v >= ToNumber(b).v
JsLe(a, b) == JsGe(b, a)

Min(a, b) == IF a < b THEN a ELSE b
Max(a, b) == IF a > b THEN a ELSE b

\* const clamp = (n, min, max) => Math.max(min, Math.min(max, n));
clamp(n, min, max) == Max(min, Min(max, n))

RECURSIVE Pow(_, _)
Pow(b, e) == IF e <= 0 THEN 1 ELSE b * Pow(b, e - 1)

-----------------------------------------------------------------------------
(* Scales, clocks, program constants                                       *)

GoldScale == 1000         \* gold units per gold
MsPerSec == 1000          \* (t - lastFrame.current) / 1000, (now - lastTick) / 1000

\* The wall clock reading when the component mounts, and the reading when
\* the module was loaded (defaultSave.lastTick = Date.now()).
Now0 == 200000000
LoadSkew == 20
LoadTime == Now0 - LoadSkew

UpgradeKeys == {"hammer", "anvil", "forge", "apprentice"}

defaultSave ==
  [version |-> Num(1),
   gold |-> Num(0),
   goldPerClickBase |-> Num(1),
   goldPerSecondBase |-> Num(0),
   upgrades |-> [hammer |-> Num(0), anvil |-> Num(0), forge |-> Num(0), apprentice |-> Num(0)],
   prestige |-> [count |-> Num(0), essence |-> Num(0)],
   lastTick |-> Num(LoadTime)]

\* baseCost, and costMult as the fraction multNum / multDen.
UPGRADE_DEFS ==
  [hammer     |-> [baseCost |-> 10,  multNum |-> 23, multDen |-> 20],
   anvil      |-> [baseCost |-> 25,  multNum |-> 59, multDen |-> 50],
   forge      |-> [baseCost |-> 100, multNum |-> 5,  multDen |-> 4],
   apprentice |-> [baseCost |-> 75,  multNum |-> 61, multDen |-> 50]]

\* A cost that stays at baseCost whatever the level.
upgradeCostFlat(key, lvl) == Num(UPGRADE_DEFS[key].baseCost * GoldScale)

\* Math.floor(def.baseCost * Math.pow(def.costMult, lvl)), in gold units.
\* Math.pow(x, undefined) and Math.pow(x, NaN) are NaN; Math.pow(x, null) is 1.
upgradeCost(key, lvl) ==
  LET def == UPGRADE_DEFS[key] IN
  IF ~IsNum(lvl) THEN NaN
  ELSE LET l == ToNumber(lvl).v IN
       Num(((def.baseCost * Pow(def.multNum, l)) \div Pow(def.multDen, l)) * GoldScale)

\* Derived stats that leave the essence out of the multiplier.
computeDerivedNoEssence(save) ==
  LET globalMult == JsMul(JsAdd(Num(10), save.upgrades.forge), Num(50))
  IN [click |-> JsMul(JsMul(JsAdd(save.goldPerClickBase, save.upgrades.hammer), globalMult), Num(2)),
      gps |-> JsMul(JsAdd(JsMul(save.goldPerSecondBase, Num(2)), save.upgrades.anvil), globalMult),
      globalMult |-> globalMult,
      autoClicksPerSec |-> save.upgrades.apprentice]

\* computeDerived(save): click and gps in gold units, globalMult in 1/500.
\*   hammer = lvl * 1            anvil = lvl * 0.5   (anvil2 = 2 * anvil)
\*   forgeMult = 1 + lvl * 0.1   (forge10 = 10 * forgeMult)
\*   essenceMult = 1 + essence * 0.02   (essence50 = 50 * essenceMult)
computeDerived(save) ==
  LET hammer == JsMul(save.upgrades.hammer, Num(1))
      anvil2 == JsMul(save.upgrades.anvil, Num(1))
      forge10 == JsAdd(Num(10), JsMul(save.upgrades.forge, Num(1)))
      essence50 == JsAdd(Num(50), JsMul(save.prestige.essence, Num(1)))
      globalMult == JsMul(forge10, essence50)
  IN [click |-> JsMul(JsMul(JsAdd(save.goldPerClickBase, hammer), globalMult), Num(2)),
      gps |-> JsMul(JsAdd(JsMul(save.goldPerSecondBase, Num(2)), anvil2), globalMult),
      globalMult |-> globalMult,
      autoClicksPerSec |-> save.upgrades.apprentice]


-----------------------------------------------------------------------------
(* Text, JSON and base64                                                   *)
(*                                                                         *)
(* A string is kept as what decoding finds in it.  enc says how the text   *)
(* reads as a whole: "none" (null: no storage entry, a cancelled prompt),  *)
(* "empty" (""), "plain" (the characters of body), "b64" (the base64 of    *)
(* the UTF-8 of body) or "notb64" (characters atob rejects).  body.c says  *)
(* how the characters read as JSON: "json" (the text of value val),        *)
(* "truncated" (a JSON text cut short) or "garbage".                       *)
(* A JSON value is null, a number or an object with the properties listed  *)
(* in it; a property the object does not hold reads undefined.             *)

JNull == [t |-> "null"]
JNum(n) == [t |-> "num", n |-> n]
JObj(o) == [t |-> "obj", o |-> o]

NoText == [enc |-> "none"]
EmptyText == [enc |-> "empty"]
NotBase64 == [enc |-> "notb64"]
Garbage == [c |-> "garbage"]
JsonOf(v) == [c |-> "json", val |-> v]
TruncatedJson(v) == [c |-> "truncated", val |-> v]
Plain(body) == [enc |-> "plain", body |-> body]
Base64(body) == [enc |-> "b64", body |-> body]

\* JSON.stringify of a number: NaN is written as null.
StringifyNum(x) == IF x.k = "nan" THEN Null ELSE x

\* JSON.stringify(save): a property whose value is undefined is left out.
StringifySave(save) ==
  JsonOf(JObj(
    [version |-> StringifyNum(save.version),
     gold |-> StringifyNum(save.gold),
     goldPerClickBase |-> StringifyNum(save.goldPerClickBase),
     goldPerSecondBase |-> StringifyNum(save.goldPerSecondBase),
     upgrades |-> [key \in DOMAIN save.upgrades |-> StringifyNum(save.upgrades[key])],
     prestige |-> [key \in DOMAIN save.prestige |-> StringifyNum(save.prestige[key])],
     lastTick |-> StringifyNum(save.lastTick)]))

\* JSON.parse(text): the value, or a SyntaxError.
JsonParse(body) ==
  IF body.c = "json" THEN [threw |-> FALSE, val |-> body.val] ELSE [threw |-> TRUE]

\* { ...defaultSave, ...parsed }: the own properties of parsed win, one level
\* deep; spreading null or a number adds nothing.
SpreadOverDefaults(parsed) ==
  IF parsed.t # "obj" THEN defaultSave
  ELSE [key \in DOMAIN defaultSave |->
          IF parsed.o[key] = Undefined THEN defaultSave[key] ELSE parsed.o[key]]

\* The body of loadSave's try block: what it returns, or that it threw.
loadSaveTry(raw) ==
  IF raw.enc \in {"none", "empty"} THEN [threw |-> FALSE, save |-> defaultSave]
  ELSE LET parsed == JsonParse(raw.body) IN
       IF parsed.threw THEN [threw |-> TRUE]
       ELSE [threw |-> FALSE, save |-> SpreadOverDefaults(parsed.val)]

\* loadSave without its catch.
loadSaveNoCatch(raw) == loadSaveTry(raw)

\* function loadSave(): try { ... } catch { return { ...defaultSave }; }
loadSave(raw) ==
  IF loadSaveTry(raw).threw THEN [threw |-> FALSE, save |-> defaultSave]
  ELSE loadSaveTry(raw)

\* function storeSave(save): the text written under "idlesmith-save".
storeSave(save) == Plain(StringifySave(save))

\* Export Save: btoa(unescape(encodeURIComponent(JSON.stringify(save))))
ExportText(save) == Base64(StringifySave(save))

\* atob(txt) and decodeURIComponent(escape(...)): the characters, or an error.
DecodeBase64(txt) ==
  IF txt.enc = "b64" THEN [threw |-> FALSE, body |-> txt.body] ELSE [threw |-> TRUE]

\* Import Save onClick, given what the prompt returned and the current save:
\* the save it leaves and whether it alerted "Invalid save code".
ImportResult(txt, cur) ==
  IF txt.enc \in {"none", "empty"} THEN [save |-> cur, set |-> FALSE, alert |-> FALSE]
  ELSE LET dec == DecodeBase64(txt) IN
       IF dec.threw THEN [save |-> cur, set |-> FALSE, alert |-> TRUE]
       ELSE LET parsed == JsonParse(dec.body) IN
            IF parsed.threw THEN [save |-> cur, set |-> FALSE, alert |-> TRUE]
            ELSE [save |-> SpreadOverDefaults(parsed.val), set |-> TRUE, alert |-> FALSE]

-----------------------------------------------------------------------------
(* Bounds and inputs                                                       *)

MaxActs == 2        \* user events (click, buy, prestige, import, reset) per run
MaxFrames == 4      \* frame callbacks per run
MaxLevel == 3       \* no purchase beyond this level

\* Gaps between consecutive frame timestamps, in ms: a repeated timestamp,
\* a short frame and a stall.
FrameGaps == {0, 100, 1500}
\* How far performance.now(), read for useRef at the first render, may lie
\* after the start time the first frame reports.
FirstFrameLags == {0, 50}

Gold(g) == Num(g * GoldScale)

SavedGame(gold, up, essence, count, lastTick) ==
  [defaultSave EXCEPT !.gold = Gold(gold),
                      !.upgrades = [key \in UpgradeKeys |-> Num(up[key])],
                      !.prestige = [count |-> Num(count), essence |-> Num(essence)],
                      !.lastTick = Num(lastTick)]

NoUpgrades == [hammer |-> 0, anvil |-> 0, forge |-> 0, apprentice |-> 0]

\* Saves an earlier session can have left in storage.
StoredSaves ==
  { SavedGame(10, NoUpgrades, 0, 0, Now0 - 500),
    SavedGame(0, [NoUpgrades EXCEPT !.anvil = 1], 450, 30, Now0 - 10000),
    SavedGame(0, [NoUpgrades EXCEPT !.anvil = 1, !.apprentice = 1], 0, 0, Now0 - 100000000),
    SavedGame(40, [NoUpgrades EXCEPT !.anvil = 1], 0, 0, Now0 + 5000),
    SavedGame(50000, [NoUpgrades EXCEPT !.hammer = 1, !.apprentice = 1], 0, 0, Now0 - 1000),
    SavedGame(79999, NoUpgrades, 0, 0, Now0 - 500) }

\* What the storage entry can hold when the component mounts.
StoredTexts ==
  { NoText, EmptyText, Plain(Garbage),
    Plain(TruncatedJson(StringifySave(SavedGame(10, NoUpgrades, 0, 0, Now0 - 500)).val)) }
  \cup { storeSave(sv) : sv \in StoredSaves }

\* An object holding only part of a save: gold, and two of the four levels.
PartialObject ==
  [version |-> Undefined, gold |-> Gold(60), goldPerClickBase |-> Undefined,
   goldPerSecondBase |-> Undefined,
   upgrades |-> [hammer |-> Num(1), anvil |-> Num(1), forge |-> Undefined, apprentice |-> Undefined],
   prestige |-> Undefined, lastTick |-> Undefined]

\* What the import prompt can return.
ImportTexts ==
  { NoText, NotBase64, Base64(Garbage), Base64(JsonOf(JNull)), Base64(JsonOf(JNum(5))),
    ExportText(SavedGame(60000, [NoUpgrades EXCEPT !.hammer = 1], 0, 0, Now0 - 10000)),
    Base64(JsonOf(JObj(PartialObject))) }

-----------------------------------------------------------------------------
(* The component                                                           *)

VARIABLES
  mounted,         \* the component is mounted
  now,             \* Date.now(); performance.now() is now - Now0
  save,            \* the state held by useState: every queued setSave applied
  rendered,        \* the save of the last render: what the handlers' closures read
  effectsPending,  \* the first render's effects have not run yet
  storage,         \* the text under "idlesmith-save"
  lastFrame,       \* lastFrame.current
  loops,           \* one record per run of the loop effect: its first request, its
                   \* raf and carry, and the gps, click, autoClicksPerSec it closed over
  pending,         \* the frame callbacks requested and not yet run or cancelled
  nextRaf,         \* the id the next requestAnimationFrame returns
  alerted,         \* the last import alerted "Invalid save code"
  op,              \* the step taken last
  loaded,          \* what loadSave returned at mount
  offline,         \* what the offline effect did: how often it credited, and how much
  nFrames, nTicks, \* frame callbacks run, income ticks applied
  frameLog,        \* the timestamps of the frame callbacks run
  acts             \* user events handled

vars == <<mounted, now, save, rendered, effectsPending, storage, lastFrame, loops,
          pending, nextRaf, alerted, op, loaded, offline, nFrames, nTicks,
          frameLog, acts>>

FrameClampMs == 250          \* Math.min(0.25, ...)
OfflineCapSec == 28800       \* 60 * 60 * 8
PrestigeThreshold == 50000   \* save.gold >= 50_000
PrestigeDivisor == 5000      \* save.gold / 5_000

\* seconds * rate for a time span given in ms and a rate in gold units per second.
PerSpan(ms, rate) ==
  IF ~IsNum(rate) THEN NaN
  ELSE LET r == ToNumber(rate).v IN
       Num((ms \div MsPerSec) * r + ((ms % MsPerSec) * r) \div MsPerSec)

\* gps + autoClicksPerSec * click
IncomePerSec(d) == JsAdd(d.gps, JsMul(d.autoClicksPerSec, d.click))

\* The time away without its clamp.
OfflineDeltaMsUnclamped(t, lastTick) == t - lastTick

\* clamp((now - save.lastTick) / 1000, 0, 60 * 60 * 8), in ms.
OfflineDeltaMs(t, lastTick) == clamp(t - lastTick, 0, OfflineCapSec * MsPerSec)

\* The offline effect run at time t on the rendered save sv: whether it calls
\* setSave, and the goldFromIdle it adds.
OfflineProgress(t, sv) ==
  LET d == computeDerived(sv) IN
  IF ~IsNum(sv.lastTick) THEN [credit |-> FALSE, gold |-> Num(0)]
  ELSE LET deltaMs == OfflineDeltaMs(t, ToNumber(sv.lastTick).v) IN
       IF deltaMs > 1 * MsPerSec /\ (JsGt(d.gps, Num(0)) \/ JsGt(d.autoClicksPerSec, Num(0)))
       THEN [credit |-> TRUE, gold |-> PerSpan(deltaMs, IncomePerSec(d))]
       ELSE [credit |-> FALSE, gold |-> Num(0)]

\* A tick that also writes the rate into the save.
TickUpdateRebase(s, d, t) ==
  [s EXCEPT !.gold = JsAdd(JsAdd(s.gold, d.gps), JsMul(d.autoClicksPerSec, d.click)),
            !.goldPerSecondBase = d.gps,
            !.lastTick = Num(t)]

\* (s) => ({ ...s, gold: s.gold + gps + autoClicksPerSec * click, lastTick: Date.now() })
TickUpdate(s, d, t) ==
  [s EXCEPT !.gold = JsAdd(JsAdd(s.gold, d.gps), JsMul(d.autoClicksPerSec, d.click)),
            !.lastTick = Num(t)]

RECURSIVE ApplyTicks(_, _, _, _)
ApplyTicks(s, k, d, t) == IF k <= 0 THEN s ELSE ApplyTicks(TickUpdate(s, d, t), k - 1, d, t)

\* The frame time without its cap.
FrameDtUncapped(t, lf) == t - lf

\* const dt = Math.min(0.25, (t - lastFrame.current) / 1000), in ms.
FrameDt(t, lf) == Min(FrameClampMs, t - lf)

\* while (carry >= 1) { ...; carry -= 1; }: how often the body runs.
TicksDue(carry) == IF carry >= MsPerSec THEN carry \div MsPerSec ELSE 0

\* The dependencies of the loop effect: [gps, click, autoClicksPerSec].
LoopDeps(sv) ==
  LET d == computeDerived(sv) IN
  [gps |-> d.gps, click |-> d.click, autoClicksPerSec |-> d.autoClicksPerSec]

\* A cleanup that cancels the request the effect itself made.
CancelledByFirst(loop) == loop.first

\* return () => cancelAnimationFrame(raf): raf is the loop's latest request.
CancelledBy(loop) == loop.raf

Cleanup(ps, loop) == { cb \in ps : cb.id # CancelledBy(loop) }

\* Math.floor(Math.sqrt(save.gold / 5_000)); the root of a negative number is NaN.
essenceGain(gold) ==
  IF ~IsNum(gold) \/ JsLt(gold, Num(0)) THEN NaN
  ELSE LET q == ToNumber(gold).v \div (PrestigeDivisor * GoldScale) IN
       Num(CHOOSE r \in 0..q : r * r <= q /\ (r + 1) * (r + 1) > q)

canPrestige(gold) == JsGe(gold, Gold(PrestigeThreshold))

\* The first render: useState(loadSave), useRef(performance.now()).  A
\* loadSave that throws leaves no component.
InitWith(texts, lags) ==
  /\ storage \in texts
  /\ loaded = loadSave(storage)
  /\ mounted = ~loaded.threw
  /\ save = IF loaded.threw THEN defaultSave ELSE loaded.save
  /\ rendered = save
  /\ effectsPending = TRUE
  /\ now = Now0
  /\ lastFrame \in lags
  /\ loops = <<>>
  /\ pending = {}
  /\ nextRaf = 1
  /\ alerted = FALSE
  /\ op = "init"
  /\ offline = [runs |-> 0, credits |-> 0, gold |-> Num(0)]
  /\ nFrames = 0
  /\ nTicks = 0
  /\ frameLog = <<>>
  /\ acts = 0

\* Mounted from any of the stored texts.
InitPlay == InitWith(StoredTexts, {0})

\* Mounted from an unreadable entry, from a save whose lastTick lies ahead of
\* the clock, or from a save that can prestige.
MainTexts ==
  { NoText, EmptyText, Plain(Garbage),
    Plain(TruncatedJson(StringifySave(SavedGame(10, NoUpgrades, 0, 0, Now0 - 500)).val)),
    storeSave(SavedGame(40, [NoUpgrades EXCEPT !.anvil = 1], 0, 0, Now0 + 5000)),
    storeSave(SavedGame(50000, [NoUpgrades EXCEPT !.hammer = 1, !.apprentice = 1], 0, 0, Now0 - 1000)) }

Init == InitWith(MainTexts, {0})

\* The effects of the first render, in the order they are declared: offline
\* progress, the loop's first requestAnimationFrame, autosave.
MountEffects ==
  /\ mounted /\ effectsPending /\ loops = <<>>
  /\ LET idle == OfflineProgress(now, rendered) IN
       /\ save' = IF idle.credit
                  THEN [save EXCEPT !.gold = JsAdd(@, idle.gold), !.lastTick = Num(now)]
                  ELSE save
       /\ offline' = [runs |-> offline.runs + 1,
                      credits |-> offline.credits + (IF idle.credit THEN 1 ELSE 0),
                      gold |-> idle.gold]
  /\ loops' = <<[first |-> nextRaf, raf |-> nextRaf, carry |-> 0, deps |-> LoopDeps(rendered)]>>
  /\ pending' = {[id |-> nextRaf, inst |-> 1]}
  /\ nextRaf' = nextRaf + 1
  /\ storage' = storeSave(rendered)
  /\ effectsPending' = FALSE
  /\ op' = "mount"
  /\ UNCHANGED <<mounted, now, rendered, lastFrame, alerted, loaded, nFrames, nTicks,
                 frameLog, acts>>

\* A render of the component and the effects it schedules: the closures now
\* read the current save; the loop effect restarts when one of its
\* dependencies changed (cleanup, then a new loop with carry 0); autosave.
Render ==
  /\ mounted /\ ~effectsPending /\ save # rendered
  /\ rendered' = save
  /\ LET cur == loops[Len(loops)] IN
       IF LoopDeps(save) # cur.deps
       THEN /\ loops' = Append(loops, [first |-> nextRaf, raf |-> nextRaf, carry |-> 0,
                                          deps |-> LoopDeps(save)])
            /\ pending' = Cleanup(pending, cur) \cup {[id |-> nextRaf, inst |-> Len(loops) + 1]}
            /\ nextRaf' = nextRaf + 1
       ELSE UNCHANGED <<loops, pending, nextRaf>>
  /\ storage' = storeSave(save)
  /\ op' = "render"
  /\ UNCHANGED <<mounted, now, save, effectsPending, lastFrame, alerted, loaded, offline,
                 nFrames, nTicks, frameLog, acts>>

\* The browser runs a pending frame callback: loop(t) of the loop that requested it.
Frame(cb, gap) ==
  /\ cb \in pending
  /\ nFrames < MaxFrames
  /\ LET t == (now + gap) - Now0
         lp == loops[cb.inst]
         carry == lp.carry + FrameDt(t, lastFrame)
         k == TicksDue(carry)
     IN /\ now' = now + gap
        /\ lastFrame' = t
        /\ save' = IF mounted THEN ApplyTicks(save, k, lp.deps, now + gap) ELSE save
        /\ loops' = [loops EXCEPT ![cb.inst] = [@ EXCEPT !.carry = carry - k * MsPerSec,
                                                         !.raf = nextRaf]]
        /\ pending' = (pending \ {cb}) \cup {[id |-> nextRaf, inst |-> cb.inst]}
        /\ nextRaf' = nextRaf + 1
        /\ nFrames' = nFrames + 1
        /\ nTicks' = nTicks + k
        /\ frameLog' = Append(frameLog, t)
  /\ op' = "frame"
  /\ UNCHANGED <<mounted, rendered, effectsPending, storage, alerted, loaded, offline, acts>>

\* A user event is handled between renders, after the effects of the last one.
CanHandle == mounted /\ ~effectsPending /\ acts < MaxActs

\* A click that pays with a prestige.
ClickUpdateSpends(s, click) ==
  [s EXCEPT !.gold = JsAdd(@, click), !.prestige.count = JsSub(@, Num(1))]

\* const doClick = () => setSave((s) => ({ ...s, gold: s.gold + click }));
ClickUpdate(s, click) == [s EXCEPT !.gold = JsAdd(@, click)]

DoClick ==
  /\ CanHandle
  /\ save' = ClickUpdate(save, computeDerived(rendered).click)
  /\ acts' = acts + 1
  /\ op' = "click"
  /\ UNCHANGED <<mounted, now, rendered, effectsPending, storage, lastFrame, loops, pending,
                 nextRaf, alerted, loaded, offline, nFrames, nTicks, frameLog>>

\* buyUpgrade: the cost and the guard read the rendered save.
BuyCost(key, snapshot) == upgradeCost(key, snapshot.upgrades[key])

BuyRejected(key, snapshot) == JsLt(snapshot.gold, BuyCost(key, snapshot))

\* A purchase that takes a level away.
BuyUpdateDown(s, key, cost) ==
  [s EXCEPT !.gold = JsSub(@, cost), !.upgrades[key] = JsSub(@, Num(1))]

\* (s) => ({ ...s, gold: s.gold - cost, upgrades: { ...s.upgrades, [key]: s.upgrades[key] + 1 } })
BuyUpdate(s, key, cost) ==
  [s EXCEPT !.gold = JsSub(@, cost), !.upgrades[key] = JsAdd(@, Num(1))]

WithinLevels(key) ==
  /\ IsNum(rendered.upgrades[key]) => ToNumber(rendered.upgrades[key]).v < MaxLevel
  /\ IsNum(save.upgrades[key]) => ToNumber(save.upgrades[key]).v < MaxLevel

BuyUpgrade(key) ==
  /\ CanHandle
  /\ WithinLevels(key)
  /\ save' = IF BuyRejected(key, rendered) THEN save
             ELSE BuyUpdate(save, key, BuyCost(key, rendered))
  /\ acts' = acts + 1
  /\ op' = "buy"
  /\ UNCHANGED <<mounted, now, rendered, effectsPending, storage, lastFrame, loops, pending,
                 nextRaf, alerted, loaded, offline, nFrames, nTicks, frameLog>>

\* doPrestige: canPrestige and essenceGain read the rendered save.
PrestigeRejected(snapshot) ==
  ~canPrestige(snapshot.gold) \/ JsLe(essenceGain(snapshot.gold), Num(0))

PrestigeUpdate(s, gain, t) ==
  [defaultSave EXCEPT !.prestige = [count |-> JsAdd(s.prestige.count, Num(1)),
                                    essence |-> JsAdd(s.prestige.essence, gain)],
                      !.lastTick = Num(t)]

DoPrestige ==
  /\ CanHandle
  /\ save' = IF PrestigeRejected(rendered) THEN save
             ELSE PrestigeUpdate(save, essenceGain(rendered.gold), now)
  /\ acts' = acts + 1
  /\ op' = "prestige"
  /\ UNCHANGED <<mounted, now, rendered, effectsPending, storage, lastFrame, loops, pending,
                 nextRaf, alerted, loaded, offline, nFrames, nTicks, frameLog>>

\* A reset that keeps the defaults' own lastTick.
ResetUpdateStale(t) == defaultSave

\* resetAll: setSave({ ...defaultSave, lastTick: Date.now() }) unless confirm() is declined.
ResetUpdate(t) == [defaultSave EXCEPT !.lastTick = Num(t)]

ResetAll(confirmed) ==
  /\ CanHandle
  /\ save' = IF confirmed THEN ResetUpdate(now) ELSE save
  /\ acts' = acts + 1
  /\ op' = "reset"
  /\ UNCHANGED <<mounted, now, rendered, effectsPending, storage, lastFrame, loops, pending,
                 nextRaf, alerted, loaded, offline, nFrames, nTicks, frameLog>>

\* Import Save onClick with txt the text the prompt returned.
ImportSave(txt) ==
  /\ CanHandle
  /\ LET r == ImportResult(txt, save) IN
       /\ save' = r.save
       /\ alerted' = r.alert
  /\ acts' = acts + 1
  /\ op' = "import"
  /\ UNCHANGED <<mounted, now, rendered, effectsPending, storage, lastFrame, loops, pending,
                 nextRaf, loaded, offline, nFrames, nTicks, frameLog>>

\* The component is torn down: the loop effect's cleanup runs.
Unmount ==
  /\ mounted /\ ~effectsPending
  /\ mounted' = FALSE
  /\ pending' = IF loops = <<>> THEN pending ELSE Cleanup(pending, loops[Len(loops)])
  /\ op' = "unmount"
  /\ UNCHANGED <<now, save, rendered, effectsPending, storage, lastFrame, loops, nextRaf,
                 alerted, loaded, offline, nFrames, nTicks, frameLog, acts>>

\* Frames arrive at the clamp interval while the window is in front.
PlayGaps == {250}

\* The whole game: every handler, every import text, steady frames.
Next ==
  \/ MountEffects
  \/ Render
  \/ \E cb \in pending : \E gap \in PlayGaps : Frame(cb, gap)
  \/ DoClick
  \/ \E key \in UpgradeKeys : BuyUpgrade(key)
  \/ DoPrestige
  \/ \E confirmed \in BOOLEAN : ResetAll(confirmed)
  \/ \E txt \in ImportTexts : ImportSave(txt)

Spec == Init /\ [][Next]_vars

\* Play from a stored save: click, buy, tick, offline catch-up and prestige.
NextPlay ==
  \/ MountEffects
  \/ Render
  \/ \E cb \in pending : \E gap \in PlayGaps : Frame(cb, gap)
  \/ DoClick
  \/ \E key \in UpgradeKeys : BuyUpgrade(key)
  \/ DoPrestige

SpecPlay == InitPlay /\ [][NextPlay]_vars

\* The loop under every frame timing, with purchases that restart it.
NextLoop ==
  \/ MountEffects
  \/ Render
  \/ \E cb \in pending : \E gap \in FrameGaps : Frame(cb, gap)
  \/ \E key \in UpgradeKeys : BuyUpgrade(key)
  \/ Unmount

\* A stored save for the loop: it earns per second and can buy, which
\* restarts the loop.
LoopTexts == { storeSave(SavedGame(40, [NoUpgrades EXCEPT !.anvil = 1], 0, 0, Now0 - 500)) }

InitLoop == InitWith(LoopTexts, FirstFrameLags)

SpecLoop == InitLoop /\ [][NextLoop]_vars

-----------------------------------------------------------------------------
(* Properties                                                              *)

\* C1: gold is never negative, whatever sequence of click, buy, tick,
\* offline catch-up and prestige is handled, several buys against one render
\* included.
C1_GoldNeverNegative == ~JsLt(save.gold, Num(0))

\* C2: a buy-upgrade(key) leaves the save unchanged or, in one replacement,
\* takes exactly cost(key, L) from gold and raises the level from L to L + 1,
\* L being the level the save holds when the change is applied.
C2_BuyChargesLevelHeld ==
  [][\A key \in UpgradeKeys :
       BuyUpgrade(key) =>
         \/ save' = save
         \/ save' = [save EXCEPT !.gold = JsSub(@, upgradeCost(key, save.upgrades[key])),
                                 !.upgrades[key] = JsAdd(@, Num(1))]]_vars

\* A step that runs one frame callback.
FrameStep == nFrames' = nFrames + 1

\* The seconds of income a loop holds or has handed out, in ms.
RECURSIVE SumCarry(_, _)
SumCarry(ls, i) == IF i = 0 THEN 0 ELSE ls[i].carry + SumCarry(ls, i - 1)

\* C3: a frame adds at most 0.25 s to the carry whatever the gap before it,
\* so a frame applies at most one tick and N frames apply at most
\* floor(0.25 * N) ticks; frames at 0, 1500 and 1600 ms accumulate at most
\* 0.5 s and apply no tick.
C3_FrameClamp ==
  /\ [](/\ nTicks <= nFrames \div 4
        /\ frameLog = <<0, 1500, 1600>> =>
             /\ nTicks = 0
             /\ \A i \in 1..Len(loops) : loops[i].carry <= 500)
  /\ [][FrameStep =>
          /\ nTicks' - nTicks <= 1
          /\ (SumCarry(loops', Len(loops')) + (nTicks' - nTicks) * MsPerSec)
               - SumCarry(loops, Len(loops)) <= 250]_vars

\* A stall of 1.5 s between two frames, and a tick applied by the fourth frame.
C3_Witness ==
  /\ nTicks = 1
  /\ nFrames = 4
  /\ \E i \in 1..(Len(frameLog) - 1) : frameLog[i + 1] - frameLog[i] = 1500

\* C10: once the component is torn down no frame callback runs and no tick
\* changes the save; while it is mounted at most one loop has a frame
\* callback pending, across every restart of the loop effect.
C10_SingleLoop ==
  /\ [](/\ Cardinality(pending) <= 1
        /\ ~mounted => pending = {})
  /\ [][~mounted => (nFrames' = nFrames /\ nTicks' = nTicks /\ save' = save)]_vars

\* Torn down after the loop effect restarted and frames of both loops ran.
C10_Witness ==
  /\ ~mounted
  /\ Len(loops) >= 2
  /\ loops[1].raf # loops[1].first
  /\ loops[2].raf # loops[2].first

\* The income per second of the save that was loaded, and the time it was
\* away: now - lastTick, not below 0 and not above 8 hours.
C4_Rate == IncomePerSec(computeDerived(loaded.save))

C4_AwayMs ==
  LET elapsed == now - ToNumber(rendered.lastTick).v IN
  IF elapsed < 0 THEN 0
  ELSE IF elapsed > 28800 * 1000 THEN 28800 * 1000 ELSE elapsed

\* C4: the offline catch-up runs once per mount; it adds
\* deltaSec * (gps + autoClicksPerSec * click) and sets lastTick = now when
\* deltaSec > 1 and there is income, and changes nothing otherwise; what it
\* credits lies between 0 and 28800 * (gps + autoClicksPerSec * click), and
\* is 50 for 10 s away at gps = 5 without apprentices.
C4_OfflineOnce ==
  /\ [](/\ offline.runs = (IF effectsPending THEN 0 ELSE 1)
        /\ offline.credits <= offline.runs
        /\ JsGe(offline.gold, Num(0))
        /\ JsLe(offline.gold, JsMul(Num(28800), C4_Rate))
        /\ (/\ offline.runs = 1
            /\ loaded.save.lastTick = Num(Now0 - 10000)
            /\ computeDerived(loaded.save).gps = Gold(5)
            /\ loaded.save.upgrades.apprentice = Num(0)) => offline.gold = Gold(50))
  /\ [][MountEffects =>
          LET d == computeDerived(rendered) IN
          IF C4_AwayMs > 1000 /\ (JsGt(d.gps, Num(0)) \/ JsGt(d.autoClicksPerSec, Num(0)))
          THEN save' = [save EXCEPT !.gold = JsAdd(@, PerSpan(C4_AwayMs, IncomePerSec(d))),
                                    !.lastTick = Num(now)]
          ELSE save' = save]_vars

\* The catch-up credited the whole cap for a save left far longer than 8 hours.
C4_Witness ==
  /\ offline.credits = 1
  /\ ToNumber(loaded.save.lastTick).v < Now0 - 28800 * 1000
  /\ offline.gold = JsMul(Num(28800), C4_Rate)
  /\ JsGt(offline.gold, Num(0))

\* C5: a prestige performed when gold >= 50000 leaves the defaults except
\* prestige.count + 1, prestige.essence + floor(sqrt(G / 5000)) with G the
\* gold being reset, and lastTick = now.
C5_PrestigeGain ==
  [][(DoPrestige /\ canPrestige(save.gold)) =>
       save' = [defaultSave EXCEPT
                  !.prestige = [count |-> JsAdd(save.prestige.count, Num(1)),
                                essence |-> JsAdd(save.prestige.essence, essenceGain(save.gold))],
                  !.lastTick = Num(now)]]_vars

\* A storage entry that is absent, empty or not the text of a JSON value.
Unparsable(raw) == raw.enc \in {"none", "empty"} \/ raw.body.c # "json"

\* C6: loadSave never throws, and for an absent, empty, truncated or
\* otherwise unparsable entry it returns the defaults in every field
\* (lastTick aside).
C6_LoadFallsBack ==
  effectsPending =>
    /\ ~loaded.threw
    /\ mounted
    /\ Unparsable(storage) =>
         \A f \in DOMAIN defaultSave \ {"lastTick"} : save[f] = defaultSave[f]

\* Mounted from a truncated entry.
C6_Witness ==
  /\ effectsPending
  /\ mounted
  /\ storage.enc = "plain"
  /\ storage.body.c = "truncated"
  /\ save.gold = Num(0)

\* An import text that is not the export encoding of a save record.
NotASaveCode(txt) ==
  \/ txt.enc = "notb64"
  \/ /\ txt.enc = "b64"
     /\ \/ txt.body.c # "json"
        \/ txt.body.val.t # "obj"

\* C7: an import of such a text alerts the user and leaves the save as it was.
C7_BadImportRejected ==
  [][\A txt \in ImportTexts :
       (ImportSave(txt) /\ NotASaveCode(txt)) => (alerted' /\ save' = save)]_vars

\* C8: importing the export of any reachable save gives that save back.
C8_RoundTrip == ImportResult(ExportText(save), save).save = save

\* C9 as stated: every step but a hard reset leaves lastTick where it was or
\* later, and a hard reset sets it to the current time.
C9_LastTickMonotone ==
  [][IF ResetAll(TRUE) THEN save'.lastTick = Num(now)
     ELSE JsGe(save'.lastTick, save.lastTick)]_vars

\* C9 as amended: click, buy, tick, offline catch-up and prestige leave
\* lastTick where it was or later when it is not later than the current
\* time; a confirmed hard reset sets it to the current time; an import is
\* free to set it earlier.
C9_LastTickMonotoneButImport ==
  [][/\ ResetAll(TRUE) => save'.lastTick = Num(now)
     /\ (/\ ~ResetAll(TRUE)
         /\ ~(\E txt \in ImportTexts : ImportSave(txt))
         /\ JsLe(save.lastTick, Num(now))) => JsGe(save'.lastTick, save.lastTick)]_vars

\* A tick moved lastTick forward to the time of its frame.
C9_Witness ==
  /\ nTicks = 1
  /\ save.lastTick = Num(now)
  /\ now > Now0
  /\ acts >= 1

\* C11: while the component is mounted and frames arrive no more than 250 ms
\* apart, the income ticks applied since the loop first started differ from
\* the seconds of wall clock elapsed since then by less than 1, whatever
\* clicks, purchases and prestiges come between the frames.
C11_TicksTrackClock ==
  (mounted /\ loops # <<>>) =>
    LET elapsed == now - Now0 IN
    /\ elapsed - nTicks * MsPerSec < MsPerSec
    /\ nTicks * MsPerSec - elapsed < MsPerSec

\* C12: for each of the four keys and every level L within the bound,
\* upgradeCost(key, L + 1) > upgradeCost(key, L); so it is for the level the
\* save holds.
C12_CostIncreases ==
  /\ \A key \in UpgradeKeys : \A L \in 0..(MaxLevel - 1) :
       JsGt(upgradeCost(key, Num(L + 1)), upgradeCost(key, Num(L)))
  /\ \A key \in UpgradeKeys :
       (IsNum(save.upgrades[key]) /\ JsLt(save.upgrades[key], Num(MaxLevel))) =>
         JsGt(upgradeCost(key, JsAdd(save.upgrades[key], Num(1))),
              upgradeCost(key, save.upgrades[key]))

\* Two hammers were bought, the second at a higher price than the first.
C12_Witness ==
  /\ op = "buy"
  /\ loaded.save.upgrades.hammer = Num(0)
  /\ save.upgrades.hammer = Num(2)
  /\ loaded.save.gold = Gold(79999)
  /\ save.gold = Gold(79999 - 10 - 11)

\* C13: after a load or an import every SaveState field is present in the
\* save: version, gold, both base rates, lastTick, each of the four upgrade
\* levels, prestige.count and prestige.essence.
C13_EveryFieldPresent ==
  /\ \A f \in {"version", "gold", "goldPerClickBase", "goldPerSecondBase", "lastTick"} :
       save[f] # Undefined
  /\ \A key \in UpgradeKeys : save.upgrades[key] # Undefined
  /\ save.prestige.count # Undefined
  /\ save.prestige.essence # Undefined

\* C14: once the autosave effect for the latest change of the save has run,
\* the text in storage is the JSON of the current save, and a loadSave of it
\* returns a save equal to the current one in every field.
C14_StoredIsCurrent ==
  (mounted /\ ~effectsPending /\ rendered = save) =>
    /\ storage = Plain(StringifySave(save))
    /\ ~loadSave(storage).threw
    /\ loadSave(storage).save = save

\* C15: a buy-upgrade(key) handled while the save's gold is below the cost of
\* the level the save holds, and a prestige handled while the save's gold is
\* below 50000, leave the save as it is.
C15_ShortOfGoldNoOp ==
  [][/\ \A key \in UpgradeKeys :
          (BuyUpgrade(key) /\ JsLt(save.gold, upgradeCost(key, save.upgrades[key])))
            => save' = save
     /\ (DoPrestige /\ JsLt(save.gold, Gold(50000))) => save' = save]_vars

\* An upgrade level that is an integer >= 0.
IsLevel(x) == x.k = "num" /\ x.v \in Nat

C17_HardReset ==
  [][/\ ResetAll(TRUE) =>
          save' = [version |-> Num(1), gold |-> Num(0),
                   goldPerClickBase |-> Num(1), goldPerSecondBase |-> Num(0),
                   upgrades |-> [key \in UpgradeKeys |-> Num(0)],
                   prestige |-> [count |-> Num(0), essence |-> Num(0)],
                   lastTick |-> Num(now)]
     /\ ResetAll(FALSE) => save' = save]_vars

\* A confirmed reset of a game that had prestiged.
C17_Witness ==
  /\ op = "reset"
  /\ acts = 2
  /\ loaded.save.gold = Gold(50000)
  /\ loaded.save.upgrades.hammer = Num(1)
  /\ save.gold = Num(0)
  /\ save.upgrades.hammer = Num(0)
  /\ save.prestige.count = Num(0)
  /\ save.lastTick = Num(now)
  /\ rendered.prestige.count = Num(1)

\* C18: across click, buy, tick, offline catch-up and prestige,
\* prestige.count and prestige.essence never decrease, and only a successful
\* prestige changes them.
C18_PrestigeKept ==
  [][/\ JsGe(save'.prestige.count, save.prestige.count)
     /\ JsGe(save'.prestige.essence, save.prestige.essence)
     /\ save'.prestige # save.prestige =>
          (DoPrestige /\ canPrestige(rendered.gold))]_vars

\* A prestige raised count and essence; the click after it left them.
C18_Witness ==
  /\ op = "click"
  /\ save.prestige = [count |-> Num(1), essence |-> Num(3)]
  /\ loaded.save.prestige = [count |-> Num(0), essence |-> Num(0)]
  /\ JsGt(save.gold, Num(0))

\* The derived stats as section 4.1 gives them, in gold units and 1/500.
C19_Stats(sv) ==
  LET n(x) == ToNumber(x).v
      mult500 == (10 + n(sv.upgrades.forge)) * (50 + n(sv.prestige.essence))
  IN [click |-> Num(((n(sv.goldPerClickBase) + n(sv.upgrades.hammer)) * mult500 * GoldScale) \div 500),
      gps |-> Num(((2 * n(sv.goldPerSecondBase) + n(sv.upgrades.anvil)) * mult500 * GoldScale) \div 1000),
      globalMult |-> Num(mult500),
      autoClicksPerSec |-> Num(n(sv.upgrades.apprentice))]

\* C19: computeDerived gives click = (goldPerClickBase + hammer) * globalMult,
\* gps = (goldPerSecondBase + 0.5 * anvil) * globalMult, globalMult =
\* (1 + 0.1 * forge) * (1 + 0.02 * essence), autoClicksPerSec = apprentice,
\* for the save held and the save rendered; for the default save click = 1,
\* gps = 0, globalMult = 1, autoClicksPerSec = 0.
C19_DerivedStats ==
  /\ computeDerived(save) = C19_Stats(save)
  /\ computeDerived(rendered) = C19_Stats(rendered)
  /\ computeDerived(defaultSave) =
       [click |-> Gold(1), gps |-> Gold(0), globalMult |-> Num(500), autoClicksPerSec |-> Num(0)]

\* A forge bought on top of a hammer: click = (1 + 1) * 1.1 = 2.2.
C19_Witness ==
  /\ save.upgrades.hammer = Num(1)
  /\ save.upgrades.forge = Num(1)
  /\ save.upgrades.apprentice = Num(1)
  /\ computeDerived(save).click = Num(2200)
  /\ computeDerived(save).globalMult = Num(550)
  /\ computeDerived(save).autoClicksPerSec = Num(1)

\* C20: a click changes only gold; a successful buy-upgrade(key) only gold
\* and the level of key; a loop tick only gold and lastTick; after a click,
\* buy, tick, offline catch-up or prestige goldPerClickBase is 1,
\* goldPerSecondBase is 0 and version is 1.
C20_FrameConditions ==
  [][/\ DoClick => save' = [save EXCEPT !.gold = save'.gold]
     /\ \A key \in UpgradeKeys :
          (BuyUpgrade(key) /\ save' # save) =>
            save' = [save EXCEPT !.gold = save'.gold,
                                 !.upgrades[key] = save'.upgrades[key]]
     /\ FrameStep => save' = [save EXCEPT !.gold = save'.gold,
                                          !.lastTick = save'.lastTick]
     /\ (DoClick \/ (\E key \in UpgradeKeys : BuyUpgrade(key)) \/ FrameStep
           \/ MountEffects \/ DoPrestige) =>
          /\ save'.goldPerClickBase = Num(1)
          /\ save'.goldPerSecondBase = Num(0)
          /\ save'.version = Num(1)]_vars

\* A hammer was bought, a tick applied and a click handled.
C20_Witness ==
  /\ op = "click"
  /\ acts = 2
  /\ nTicks = 1
  /\ loaded.save.upgrades.hammer = Num(0)
  /\ save.upgrades.hammer = Num(1)
  /\ save.lastTick = Num(now)

\* C21: at the end of every frame callback the carry of the loop is at least
\* 0 and below 1 second, whatever timestamps the frames carry, one smaller
\* than lastFrame.current included.
C21_CarryInRange ==
  \A i \in 1..Len(loops) : 0 <= loops[i].carry /\ loops[i].carry < MsPerSec

=============================================================================
